---- MODULE Spec2Model ----
(***************************************************************************)
(* Model of cargo-deb's dh_lib.rs: the pkgfile() file lookup, the          *)
(* autoscript() fragment accumulator and the debhelper_script_subst() /    *)
(* apply() maintainer-script composer, with the filesystem access of       *)
(* util.rs.                                                                *)
(*                                                                         *)
(* Script text is a sequence of one-character strings, so that             *)
(* str::replace, str::lines and concatenation are computed character by    *)
(* character.  File names and map keys are strings built with \o, as the   *)
(* format!() calls build them.  An Option is a sequence of length 0 or 1.  *)
(***************************************************************************)
EXTENDS Integers, Sequences, FiniteSets, TLC

VARIABLES
    fs,       \* the filesystem: path -> [is_file, readable, text]
    scripts,  \* the ScriptFragments map: key -> text
    log,      \* history: <<package, script>> -> the autoscript calls that succeeded for it
    infos,    \* the messages the listener received during the last call
    last,     \* the last call: its arguments and its outcome
    alive,    \* FALSE once a call has panicked
    ncalls    \* number of autoscript calls made so far

vars == <<fs, scripts, log, infos, last, alive, ncalls>>

----------------------------------------------------------------------------
(* Bounds *)

\* autoscript calls per run
MaxCalls == 2

----------------------------------------------------------------------------
(* Text *)

None == <<>>
Some(x) == <<x>>

NL == "\n"

\* str::replace(from, to): every non-overlapping match of `from`, found by
\* one scan from the left, becomes `to`; the replacement is not rescanned.
RECURSIVE Replace(_, _, _)
Replace(s, from, to) ==
    IF Len(s) < Len(from) \/ from = <<>> THEN s
    ELSE IF SubSeq(s, 1, Len(from)) = from
         THEN to \o Replace(SubSeq(s, Len(from) + 1, Len(s)), from, to)
         ELSE <<Head(s)>> \o Replace(Tail(s), from, to)

\* str::contains
Contains(s, sub) ==
    \E i \in 1..(Len(s) - Len(sub) + 1) : SubSeq(s, i, i + Len(sub) - 1) = sub

\* str::starts_with / str::ends_with
StartsWith(s, p) == Len(s) >= Len(p) /\ SubSeq(s, 1, Len(p)) = p
EndsWith(s, p) == Len(s) >= Len(p) /\ SubSeq(s, Len(s) - Len(p) + 1, Len(s)) = p

\* str::lines(): the text split at each "\n" (or "\r\n"), the terminators
\* left out and a final empty line dropped
Lines(s) ==
    LET nls == {i \in 1..Len(s) : s[i] = NL}
        n == Cardinality(nls)
        pos(k) == IF k = 0 THEN 0
                  ELSE CHOOSE i \in nls : Cardinality({j \in nls : j <= i}) = k
        count == n + (IF Len(s) > 0 /\ s[Len(s)] # NL THEN 1 ELSE 0)
        line(k) == IF k <= n
                   THEN IF pos(k) - 1 > pos(k - 1) /\ s[pos(k) - 1] = "\r"
                        THEN SubSeq(s, pos(k - 1) + 1, pos(k) - 2)
                        ELSE SubSeq(s, pos(k - 1) + 1, pos(k) - 1)
                   ELSE SubSeq(s, pos(k - 1) + 1, Len(s))
    IN  [k \in 1..count |-> line(k)]

RECURSIVE Concat(_)
Concat(ss) == IF ss = <<>> THEN <<>> ELSE Head(ss) \o Concat(Tail(ss))

Reverse(ss) == [i \in 1..Len(ss) |-> ss[Len(ss) + 1 - i]]

----------------------------------------------------------------------------
(* util.rs: the filesystem *)

is_path_file(fsys, path) == path \in DOMAIN fsys /\ fsys[path].is_file

\* Ok(text) or an io::Error
read_file_to_string(fsys, path) ==
    IF path \in DOMAIN fsys /\ fsys[path].is_file /\ fsys[path].readable
    THEN [ok |-> TRUE, text |-> fsys[path].text]
    ELSE [ok |-> FALSE, text |-> <<>>]

\* Path::join of a relative name onto a directory written without a
\* trailing separator
Join(dir, name) == IF dir = "" THEN name ELSE dir \o "/" \o name

File(text) == [is_file |-> TRUE, readable |-> TRUE, text |-> text]
Directory == [is_file |-> FALSE, readable |-> FALSE, text |-> <<>>]
Unreadable == [is_file |-> TRUE, readable |-> FALSE, text |-> <<>>]

----------------------------------------------------------------------------
(* dh_lib.rs: pkgfile *)

\* the candidate list of pkgfile with the two middle candidates in the
\* order of the doc comment
paths_to_try_doc_order(dir, main_package, package, filename, unit_name) ==
    LET is_main_package == main_package = package
        named_filename == unit_name[1] \o "." \o filename
    IN  (IF unit_name # None
         THEN <<Join(dir, package \o "." \o named_filename)>>
         ELSE <<>>)
        \o <<Join(dir, package \o "." \o filename)>>
        \o (IF unit_name # None /\ is_main_package
            THEN <<Join(dir, named_filename)>>
            ELSE <<>>)
        \o (IF is_main_package THEN <<Join(dir, filename)>> ELSE <<>>)

paths_to_try(dir, main_package, package, filename, unit_name) ==
    LET is_main_package == main_package = package
        named_filename == unit_name[1] \o "." \o filename
        with_unit ==
            IF unit_name # None
            THEN <<Join(dir, package \o "." \o named_filename)>>
                 \o (IF is_main_package
                     THEN <<Join(dir, named_filename)>>
                     ELSE <<>>)
            ELSE <<>>
    IN  with_unit
        \o <<Join(dir, package \o "." \o filename)>>
        \o (IF is_main_package THEN <<Join(dir, filename)>> ELSE <<>>)

\* the first path of the list that is a file
RECURSIVE first_file(_, _)
first_file(fsys, paths) ==
    IF paths = <<>> THEN None
    ELSE IF is_path_file(fsys, Head(paths)) THEN Some(Head(paths))
    ELSE first_file(fsys, Tail(paths))

pkgfile(fsys, dir, main_package, package, filename, unit_name) ==
    first_file(fsys, paths_to_try(dir, main_package, package, filename, unit_name))

----------------------------------------------------------------------------
(* Maps *)

EmptyMap == [k \in {} |-> <<>>]

\* HashMap::insert
Insert(map, key, value) ==
    [k \in DOMAIN map \cup {key} |-> IF k = key THEN value ELSE map[k]]

\* the orders in which a HashMap with these keys may be iterated
Orders(keys) ==
    {o \in [1..Cardinality(keys) -> keys] :
        \A i, j \in 1..Cardinality(keys) : i # j => o[i] # o[j]}

----------------------------------------------------------------------------
(* dh_lib.rs: the embedded autoscripts *)

\* the file name of the running executable
bin_name == <<"c","a","r","g","o","-","d","e","b">>

\* the embedded folder autoscripts/: two of its files, shortened; the
\* first has no trailing newline
Autoscripts ==
    [n \in {"postrm-systemd", "prerm-systemd"} |->
        IF n = "postrm-systemd"
        THEN <<"m","a","s","k"," ","#","U","N","I","T","F","I","L","E","S","#","\n","f","i">>
        ELSE <<"s","t","o","p"," ","#","U","N","I","T","F","I","L","E","S","#","\n">>]

\* Autoscripts::get(..).is_some()
is_embedded(snippet_filename) == snippet_filename \in DOMAIN Autoscripts

\* get_embedded_autoscript without the normalisation
get_embedded_autoscript_raw(snippet_filename) == Autoscripts[snippet_filename]

\* the text of an embedded autoscript, a trailing newline appended if
\* missing; called only for a name that is embedded (else it panics)
get_embedded_autoscript(snippet_filename) ==
    LET snippet == Autoscripts[snippet_filename]
    IN  IF ~EndsWith(snippet, <<NL>>) THEN Append(snippet, NL) ELSE snippet

\* the snippet with #from# replaced by to, for each pair of the map in the
\* order the map yields them
RECURSIVE sed_loop(_, _, _)
sed_loop(snippet, replacements, order) ==
    IF order = <<>> THEN snippet
    ELSE sed_loop(Replace(snippet, <<"#">> \o Head(order) \o <<"#">>,
                          replacements[Head(order)]),
                  replacements, Tail(order))

autoscript_sed(snippet_filename, replacements, order) ==
    sed_loop(get_embedded_autoscript(snippet_filename), replacements, order)

----------------------------------------------------------------------------
(* dh_lib.rs: autoscript *)

banner_open == <<"#"," ","A","u","t","o","m","a","t","i","c","a","l","l","y"," ","a","d","d","e","d"," ","b","y"," ">>
banner_close == <<"#"," ","E","n","d"," ","a","u","t","o","m","a","t","i","c","a","l","l","y"," ","a","d","d","e","d"," ","s","e","c","t","i","o","n","\n">>

\* the key of the fragment of a package's maintainer script
\* a fragment name that leaves the package out
outfile_name_without_package(package, script) == script \o ".debhelper"

outfile_name(package, script) == package \o "." \o script \o ".debhelper"

\* the block one call adds
added_block(snippet_filename, replacements, order) ==
    banner_open \o bin_name \o <<NL>>
    \o autoscript_sed(snippet_filename, replacements, order)
    \o banner_close

\* a first branch taken whenever the fragment exists
prepends_always(map, outfile, script) == outfile \in DOMAIN map

\* a first branch never taken
prepends_never(map, outfile, script) == FALSE

\* the condition of the first branch of autoscript
prepends(map, outfile, script) ==
    outfile \in DOMAIN map /\ (script = "postrm" \/ script = "prerm")

\* a condition that lets an empty map through
has_replacements_or_not(replacements) == TRUE

\* the condition of the branches that do the work
has_replacements(replacements) == DOMAIN replacements # {}

Ok(map) == [res |-> "Ok", msg |-> "", scripts |-> map]
Panic(msg, map) == [res |-> "panic", msg |-> msg, scripts |-> map]

\* a lookup that yields nothing and goes unnoticed
unknown_autoscript_ignored(snippet_filename, map) == Ok(map)

\* .expect(..) of get_embedded_autoscript
unknown_autoscript(snippet_filename, map) ==
    Panic("Unknown autoscript '" \o snippet_filename \o "'", map)

\* an autoscript that stores the new block in place of the fragment
autoscript_overwrites(map, package, script, snippet_filename, replacements, order) ==
    IF ~has_replacements(replacements)
    THEN Panic("not implemented", map)
    ELSE IF ~is_embedded(snippet_filename)
    THEN unknown_autoscript(snippet_filename, map)
    ELSE Ok(Insert(map, outfile_name(package, script),
                   added_block(snippet_filename, replacements, order)))

\* autoscript: the outcome and the map it leaves
autoscript(map, package, script, snippet_filename, replacements, order) ==
    LET outfile == outfile_name(package, script)
    IN  IF prepends(map, outfile, script)
        THEN IF has_replacements(replacements)
             THEN IF ~is_embedded(snippet_filename)
                  THEN unknown_autoscript(snippet_filename, map)
                  ELSE Ok(Insert(map, outfile,
                          added_block(snippet_filename, replacements, order)
                          \o map[outfile]))
             ELSE Panic("not implemented", map)
        ELSE IF has_replacements(replacements)
             THEN IF ~is_embedded(snippet_filename)
                  THEN unknown_autoscript(snippet_filename, map)
                  ELSE Ok(Insert(map, outfile,
                          (IF outfile \in DOMAIN map THEN map[outfile] ELSE <<>>)
                          \o added_block(snippet_filename, replacements, order)))
             ELSE Panic("not implemented", map)

\* one call of autoscript, with a listener of its own
AutoscriptCall(packages, script_names, snippets, replacement_maps) ==
    \E package \in packages, script \in script_names, snippet_filename \in snippets,
       replacements \in replacement_maps :
      \E order \in Orders(DOMAIN replacements) :
        LET r == autoscript(scripts, package, script, snippet_filename,
                            replacements, order)
            call == [snippet_filename |-> snippet_filename,
                     replacements |-> replacements, order |-> order]
        IN  /\ alive
            /\ ncalls < MaxCalls
            /\ ncalls' = ncalls + 1
            /\ infos' = <<"Maintainer script " \o script
                          \o " will be augmented with autoscript "
                          \o snippet_filename>>
            /\ scripts' = r.scripts
            /\ log' = IF r.res = "Ok"
                      THEN Insert(log, <<package, script>>,
                               Append(IF <<package, script>> \in DOMAIN log
                                      THEN log[<<package, script>>]
                                      ELSE <<>>, call))
                      ELSE log
            /\ alive' = (r.res # "panic")
            /\ last' = [op |-> "autoscript", package |-> package, script |-> script,
                        snippet_filename |-> snippet_filename,
                        replacements |-> replacements, order |-> order,
                        res |-> r.res, msg |-> r.msg]
            /\ UNCHANGED fs

----------------------------------------------------------------------------
(* dh_lib.rs: debhelper_script_subst and apply *)

DEBHELPER == <<"#","D","E","B","H","E","L","P","E","R","#">>
shebang == <<"#","!","/","b","i","n","/","s","h","\n">>
set_e == <<"s","e","t"," ","-","e","\n">>

\* str::replacen(from, to, 1): the first match only
ReplaceFirst(s, from, to) ==
    IF ~Contains(s, from) THEN s
    ELSE LET i == CHOOSE j \in 1..Len(s) :
                     /\ SubSeq(s, j, j + Len(from) - 1) = from
                     /\ \A k \in 1..(j - 1) : SubSeq(s, k, k + Len(from) - 1) # from
         IN  SubSeq(s, 1, i - 1) \o to \o SubSeq(s, i + Len(from), Len(s))

\* the user's script with the first token only replaced
merge_first_token(user_text, generated_text) ==
    ReplaceFirst(user_text, DEBHELPER, generated_text)

\* the user's script with the generated text in the place of the token
merge_user_script(user_text, generated_text) ==
    Replace(user_text, DEBHELPER, generated_text)

\* a check that is never made
replace_never_fails(user_text, new_text) == FALSE

\* the replacement changed nothing
replace_failed(user_text, new_text) == new_text = user_text

\* the fragments alone, without the header
bare_fragments(generated_text) == generated_text

\* the fragments made into a complete shell script
generated_script(generated_text) == shebang \o set_e \o generated_text

\* a result whose messages are dropped when the call fails
SubstResultQuietOnError(res, map, msgs, user_file) ==
    [res |-> res, scripts |-> map,
     infos |-> IF res = "Ok" THEN msgs ELSE <<>>, user_file |-> user_file]

SubstResult(res, map, msgs, user_file) ==
    [res |-> res, scripts |-> map, infos |-> msgs, user_file |-> user_file]

\* the main package taken to be the first package of the control file
first_listed_package(package) == "mypkg"

\* the main_package argument debhelper_script_subst hands to pkgfile
main_package_of(package) == package

\* the final script stored over the fragment it was made from
final_name_of_fragment(package, script) == outfile_name(package, script)

\* the key of a final maintainer script
final_name(package, script) == script

\* the fragment renamed to the final script instead of copied
rename_generated(map, package, script) ==
    [k \in (DOMAIN map \ {outfile_name(package, script)}) \cup {final_name(package, script)} |->
        IF k = final_name(package, script)
        THEN generated_script(map[outfile_name(package, script)])
        ELSE map[k]]

\* the map with the script generated from the fragment of the package
store_generated(map, package, script) ==
    Insert(map, final_name(package, script),
           generated_script(map[outfile_name(package, script)]))

\* a script of the header alone, made when there is nothing to put in it
header_only_script(map, package, script, user_file) ==
    SubstResult("Ok", Insert(map, final_name(package, script), shebang \o set_e),
                <<"Generating maintainer script " \o script>>, user_file)

\* neither a user script nor a fragment: nothing is done
nothing_to_merge(map, package, script, user_file) ==
    SubstResult("Ok", map, <<>>, user_file)

\* debhelper_script_subst: the outcome, the map it leaves and the messages
\* it sends to the listener
debhelper_script_subst(fsys, map, user_scripts_dir, package, script, unit_name) ==
    LET user_file == pkgfile(fsys, user_scripts_dir, main_package_of(package),
                             package, script, unit_name)
        generated_file_name == outfile_name(package, script)
    IN  IF user_file # None
        THEN LET msgs == <<"Augmenting maintainer script " \o user_file[1]>>
                 generated_text ==
                     IF generated_file_name \in DOMAIN map
                     THEN map[generated_file_name] ELSE <<>>
                 user == read_file_to_string(fsys, user_file[1])
                 new_text == merge_user_script(user.text, generated_text)
             IN  IF ~user.ok
                 THEN SubstResult("IoError", map, msgs, user_file)
                 ELSE IF replace_failed(user.text, new_text)
                 THEN SubstResult("DebHelperReplaceFailed", map, msgs, user_file)
                 ELSE SubstResult("Ok",
                          Insert(map, final_name(package, script), new_text),
                          msgs, user_file)
        ELSE IF generated_file_name \in DOMAIN map
        THEN SubstResult("Ok", store_generated(map, package, script),
                 <<"Generating maintainer script " \o script>>, user_file)
        ELSE nothing_to_merge(map, package, script, user_file)

\* the maintainer scripts in the order apply takes them
\* the scripts taken in alphabetical order
apply_scripts_sorted == <<"postinst", "postrm", "preinst", "prerm">>

apply_scripts == <<"postinst", "preinst", "prerm", "postrm">>

\* apply: the loop over the scripts not yet done, left at the first error
RECURSIVE apply_loop(_, _, _, _, _, _, _)
apply_loop(fsys, map, msgs, user_scripts_dir, package, todo, unit_name) ==
    IF todo = <<>>
    THEN [res |-> "Ok", scripts |-> map, infos |-> msgs, at |-> None]
    ELSE LET r == debhelper_script_subst(fsys, map, user_scripts_dir, package,
                                         Head(todo), unit_name)
         IN  IF r.res # "Ok"
             THEN [res |-> r.res, scripts |-> r.scripts, infos |-> msgs \o r.infos,
                   at |-> Some(Head(todo))]
             ELSE apply_loop(fsys, r.scripts, msgs \o r.infos, user_scripts_dir,
                             package, Tail(todo), unit_name)

apply(fsys, map, user_scripts_dir, package, unit_name) ==
    apply_loop(fsys, map, <<>>, user_scripts_dir, package, apply_scripts, unit_name)

\* one call of debhelper_script_subst, with a listener of its own
DebhelperScriptSubstCall(dirs, packages, script_names, units) ==
    \E user_scripts_dir \in dirs, package \in packages, script \in script_names,
       unit_name \in units :
        LET r == debhelper_script_subst(fs, scripts, user_scripts_dir, package,
                                        script, unit_name)
        IN  /\ alive
            /\ scripts' = r.scripts
            /\ infos' = r.infos
            /\ last' = [op |-> "debhelper_script_subst", dir |-> user_scripts_dir,
                        package |-> package, script |-> script,
                        unit_name |-> unit_name, res |-> r.res]
            /\ UNCHANGED <<fs, log, alive, ncalls>>

\* one call of apply, with a listener of its own
ApplyCall(dirs, packages, units) ==
    \E user_scripts_dir \in dirs, package \in packages, unit_name \in units :
        LET r == apply(fs, scripts, user_scripts_dir, package, unit_name)
        IN  /\ alive
            /\ scripts' = r.scripts
            /\ infos' = r.infos
            /\ last' = [op |-> "apply", dir |-> user_scripts_dir,
                        package |-> package, unit_name |-> unit_name,
                        res |-> r.res, at |-> r.at]
            /\ UNCHANGED <<fs, log, alive, ncalls>>

----------------------------------------------------------------------------
(* pkgfile called on its own *)

PkgDirs == {"/parent/dir", "/wrong/dir"}
PkgPackages == {"mypkg", "otherpkg"}
PkgFilenames == {"postinst", "wrongfile"}
PkgUnits == {None, Some("myunit"), Some("wrongunit")}

\* paths that may hold a file, hold a directory, or be absent
PkgCandidates ==
    {"/parent/dir/postinst", "/parent/dir/myunit.postinst",
     "/parent/dir/mypkg.postinst", "/parent/dir/mypkg.myunit.postinst",
     "/parent/dir/otherpkg.postinst"}

\* files that are always there and are never a candidate
PkgDecoys ==
    {"/parent/dir/nested/mypkg.myunit.postinst", "/parent/mypkg.myunit.postinst",
     "/parent/dir/nested/postinst", "/parent/postinst"}

PkgFilesystems ==
    { [p \in {q \in PkgCandidates : a[q] # "absent"} \cup PkgDecoys |->
          IF p \in PkgDecoys \/ a[p] = "file" THEN File(<<>>) ELSE Directory]
      : a \in [PkgCandidates -> {"file", "dir", "absent"}] }

NoCall == [op |-> "none"]

InitPkgfile ==
    /\ fs \in PkgFilesystems
    /\ scripts = EmptyMap
    /\ log = EmptyMap
    /\ infos = <<>>
    /\ last = NoCall
    /\ alive = TRUE
    /\ ncalls = 0

PkgfileCall ==
    \E dir \in PkgDirs, main_package \in PkgPackages, package \in PkgPackages,
       filename \in PkgFilenames, unit_name \in PkgUnits :
        /\ alive
        /\ last' = [op |-> "pkgfile", dir |-> dir, main_package |-> main_package,
                    package |-> package, filename |-> filename,
                    unit_name |-> unit_name,
                    result |-> pkgfile(fs, dir, main_package, package, filename, unit_name)]
        /\ UNCHANGED <<fs, scripts, log, infos, alive, ncalls>>

NextPkgfile == PkgfileCall

SpecPkgfile == InitPkgfile /\ [][NextPkgfile]_vars

----------------------------------------------------------------------------
(* autoscript called repeatedly on one map *)

ScriptNames == {"postinst", "preinst", "prerm", "postrm"}
AccPackages == {"mypkg"}
AccSnippets == {"postrm-systemd", "prerm-systemd", "idontexist"}

UNITFILES == <<"U","N","I","T","F","I","L","E","S">>

\* the maps of replacements handed to autoscript: none (sed mode), one unit,
\* two units on two lines, and two pairs where one value holds the other's token
SedMode == EmptyMap
UnitA == [k \in {UNITFILES} |-> <<"a">>]
UnitsBC == [k \in {UNITFILES} |-> <<"b", "\n", "c">>]
Nested == [k \in {UNITFILES, <<"X">>} |->
              IF k = UNITFILES THEN <<"#", "X", "#">> ELSE <<"x">>]
AccReplacements == {SedMode, UnitA, UnitsBC, Nested}

InitAcc ==
    /\ fs = EmptyMap
    /\ scripts = EmptyMap
    /\ log = EmptyMap
    /\ infos = <<>>
    /\ last = NoCall
    /\ alive = TRUE
    /\ ncalls = 0

NextAcc == AutoscriptCall(AccPackages, ScriptNames, AccSnippets, AccReplacements)

SpecAcc == InitAcc /\ [][NextAcc]_vars

----------------------------------------------------------------------------
(* A package build: fragments accumulated and maintainer scripts composed *)

Packages == {"mypkg", "otherpkg"}
Units == {None, Some("myunit")}
UserScriptsDirs == {"debian"}
\* the scripts that get fragments in a build: one that appends, one that prepends
BuildScripts == {"postinst", "prerm"}
BuildSnippets == {"prerm-systemd"}
BuildReplacements == {UnitA}

\* user scripts: the fixtures of the tests, and scripts where the token
\* occurs twice, overlaps itself, or is split around another token
valid_user_file == <<"s","o","m","e"," ","#","D","E","B","H","E","L","P","E","R","#"," ","c","o","n","t","e","n","t">>
invalid_user_file == <<"s","o","m","e"," ","c","o","n","t","e","n","t">>
empty_user_file == <<>>
two_tokens_user_file == <<"a","#","D","E","B","H","E","L","P","E","R","#","b","#","D","E","B","H","E","L","P","E","R","#","c">>
overlapping_user_file == <<"#","D","E","B","H","E","L","P","E","R","#","D","E","B","H","E","L","P","E","R","#">>
split_token_user_file == <<"#","D","E","B","H","#","D","E","B","H","E","L","P","E","R","#","E","L","P","E","R","#">>

\* a filesystem from a set of <<path, entry>> pairs
Filesystem(entries) ==
    [p \in {e[1] : e \in entries} |-> (CHOOSE e \in entries : e[1] = p)[2]]

UserFilesystems ==
    { Filesystem({}),
      Filesystem({<<"debian/postinst", File(valid_user_file)>>,
                  <<"debian/preinst", File(valid_user_file)>>,
                  <<"debian/prerm", File(valid_user_file)>>,
                  <<"debian/postrm", File(valid_user_file)>>}),
      Filesystem({<<"debian/postinst", File(two_tokens_user_file)>>,
                  <<"debian/prerm", File(invalid_user_file)>>,
                  <<"debian/postrm", File(valid_user_file)>>}),
      Filesystem({<<"debian/postinst", File(split_token_user_file)>>,
                  <<"debian/postrm", File(overlapping_user_file)>>}),
      Filesystem({<<"debian/mypkg.postinst", File(valid_user_file)>>,
                  <<"debian/postinst", File(invalid_user_file)>>,
                  <<"debian/myunit.postrm", File(two_tokens_user_file)>>,
                  <<"debian/postrm", File(valid_user_file)>>}),
      Filesystem({<<"debian/postinst", Directory>>,
                  <<"debian/preinst", Unreadable>>,
                  <<"debian/prerm", File(empty_user_file)>>}) }

Init ==
    /\ fs \in UserFilesystems
    /\ scripts = EmptyMap
    /\ log = EmptyMap
    /\ infos = <<>>
    /\ last = NoCall
    /\ alive = TRUE
    /\ ncalls = 0

Next ==
    \/ AutoscriptCall({"mypkg"}, BuildScripts, BuildSnippets, BuildReplacements)
    \/ DebhelperScriptSubstCall(UserScriptsDirs, Packages, ScriptNames, Units)
    \/ ApplyCall(UserScriptsDirs, Packages, Units)

Spec == Init /\ [][Next]_vars

----------------------------------------------------------------------------
(* Claims about pkgfile *)

\* the four candidates as the claims name them, for the call recorded in last
UnitPackageFile == Join(last.dir, last.package \o "." \o last.unit_name[1] \o "." \o last.filename)
UnitFile == Join(last.dir, last.unit_name[1] \o "." \o last.filename)
PackageFile == Join(last.dir, last.package \o "." \o last.filename)
GenericFile == Join(last.dir, last.filename)
UnitGiven == last.unit_name # None
IsMain == last.package = last.main_package
Exists(path) == path \in DOMAIN fs /\ fs[path].is_file

C2_DocumentedOrder ==
    ( /\ last.op = "pkgfile"
      /\ UnitGiven /\ IsMain
      /\ ~Exists(UnitPackageFile) /\ Exists(UnitFile) /\ Exists(PackageFile) )
    => last.result = Some(PackageFile)

----------------------------------------------------------------------------
(* Claims about autoscript *)

\* the blocks of the successful calls for a package's script, oldest first
Blocks(pair) ==
    [i \in 1..Len(log[pair]) |->
        added_block(log[pair][i].snippet_filename, log[pair][i].replacements,
                    log[pair][i].order)]

Fragment(pair) == scripts[outfile_name(pair[1], pair[2])]

\* C3: for preinst and postinst, after n successful calls for one package
\* and script the fragment is the n blocks in registration order, oldest
\* first.
C3_InstallScriptsAppend ==
    \A pair \in DOMAIN log :
        pair[2] \in {"preinst", "postinst"} =>
            /\ outfile_name(pair[1], pair[2]) \in DOMAIN scripts
            /\ Fragment(pair) = Concat(Blocks(pair))

\* two different blocks registered for a preinst or a postinst
C3_Witness ==
    \E pair \in DOMAIN log :
        /\ pair[2] \in {"preinst", "postinst"}
        /\ Len(log[pair]) >= 2
        /\ Blocks(pair)[1] # Blocks(pair)[2]
        /\ Fragment(pair) = Blocks(pair)[1] \o Blocks(pair)[2]

\* C4: for prerm and postrm, after n successful calls for one package and
\* script the fragment is the n blocks in reverse registration order,
\* newest first.
C4_RemoveScriptsPrepend ==
    \A pair \in DOMAIN log :
        pair[2] \in {"prerm", "postrm"} =>
            /\ outfile_name(pair[1], pair[2]) \in DOMAIN scripts
            /\ Fragment(pair) = Concat(Reverse(Blocks(pair)))

\* two different blocks registered for a prerm or a postrm
C4_Witness ==
    \E pair \in DOMAIN log :
        /\ pair[2] \in {"prerm", "postrm"}
        /\ Len(log[pair]) >= 2
        /\ Blocks(pair)[1] # Blocks(pair)[2]
        /\ Fragment(pair) = Blocks(pair)[2] \o Blocks(pair)[1]

\* C5: autoscript called with an empty map of replacements panics with
\* "not implemented", for every script, whether or not the fragment exists
\* and whether or not the autoscript is embedded; the map is left as it was.
C5_SedModeUnsupported ==
    [][ (last'.op = "autoscript" /\ last'.replacements = EmptyMap)
        => /\ last'.res = "panic"
           /\ last'.msg = "not implemented"
           /\ ~alive'
           /\ scripts' = scripts ]_vars

\* a sed-mode call naming an unknown autoscript, for a fragment that exists
C5_Witness ==
    /\ last.op = "autoscript"
    /\ last.replacements = EmptyMap
    /\ last.snippet_filename \notin DOMAIN Autoscripts
    /\ outfile_name(last.package, last.script) \in DOMAIN scripts
    /\ last.script = "prerm"
    /\ last.msg = "not implemented"

\* C6: autoscript called with replacements and the name of an autoscript
\* that is not embedded panics with "Unknown autoscript '<name>'", for every
\* script and whether or not the fragment exists; it never returns Ok and
\* stores nothing.
C6_UnknownAutoscript ==
    [][ ( /\ last'.op = "autoscript"
          /\ last'.replacements # EmptyMap
          /\ last'.snippet_filename \notin DOMAIN Autoscripts )
        => /\ last'.res = "panic"
           /\ last'.msg = "Unknown autoscript '" \o last'.snippet_filename \o "'"
           /\ ~alive'
           /\ scripts' = scripts ]_vars

\* an unknown autoscript requested for a postrm fragment that exists
C6_Witness ==
    /\ last.op = "autoscript"
    /\ last.replacements # EmptyMap
    /\ last.snippet_filename = "idontexist"
    /\ last.script = "postrm"
    /\ outfile_name(last.package, last.script) \in DOMAIN scripts
    /\ last.msg = "Unknown autoscript 'idontexist'"

LineCount(text) == Len(Lines(text))

HasNewline(text) == \E i \in 1..Len(text) : text[i] = NL

\* the text the call renders from its autoscript
Rendered(call) ==
    autoscript_sed(call.snippet_filename, call.replacements, call.order)

RECURSIVE SumLines(_)
SumLines(calls) ==
    IF calls = <<>> THEN 0
    ELSE LineCount(Rendered(Head(calls))) + 2 + SumLines(Tail(calls))

\* the fragments are exactly those of the pairs with a successful call, one
\* each, and each begins with a banner line and ends with the closing line
OneFramedEntryPerPair ==
    /\ {k \in DOMAIN scripts : k \notin ScriptNames}
         = {outfile_name(pair[1], pair[2]) : pair \in DOMAIN log}
    /\ Cardinality({k \in DOMAIN scripts : k \notin ScriptNames})
         = Cardinality(DOMAIN log)
    /\ \A pair \in DOMAIN log :
          LET lines == Lines(Fragment(pair))
          IN  /\ lines # <<>>
              /\ lines[1] = banner_open \o bin_name
              /\ lines[Len(lines)] = SubSeq(banner_close, 1, Len(banner_close) - 1)
              /\ EndsWith(Fragment(pair), <<NL>>)

\* C7 as stated: after n successful calls with one autoscript for a package
\* and script there is one fragment for the pair, of n * (line count of the
\* autoscript + 2) lines, the first a banner line and the last the closing
\* line.
C7_LinesPerCallOfTemplate ==
    /\ OneFramedEntryPerPair
    /\ \A pair \in DOMAIN log :
          (\A i \in 1..Len(log[pair]) :
               log[pair][i].snippet_filename = log[pair][1].snippet_filename)
          => LineCount(Fragment(pair))
               = Len(log[pair])
                 * (LineCount(get_embedded_autoscript(log[pair][1].snippet_filename)) + 2)

\* C7 amended: each successful call adds one block of the line count of the
\* rendered autoscript plus 2, so the fragment has the sum of these over its
\* calls; a call whose replacement keys and values hold no newline renders
\* as many lines as the autoscript has.
C7_LinesPerCallOfRenderedText ==
    /\ OneFramedEntryPerPair
    /\ \A pair \in DOMAIN log :
          /\ LineCount(Fragment(pair)) = SumLines(log[pair])
          /\ \A i \in 1..Len(log[pair]) :
                LET call == log[pair][i]
                IN  /\ EndsWith(Rendered(call), <<NL>>)
                    /\ (\A k \in DOMAIN call.replacements :
                           ~HasNewline(k) /\ ~HasNewline(call.replacements[k]))
                       => LineCount(Rendered(call))
                            = LineCount(get_embedded_autoscript(call.snippet_filename))

\* two calls with one autoscript for one pair, the second with a value of
\* two lines
C7_Witness ==
    /\ Cardinality(DOMAIN log) = 1
    /\ \E pair \in DOMAIN log :
          /\ Len(log[pair]) = 2
          /\ log[pair][1].snippet_filename = "postrm-systemd"
          /\ log[pair][2].snippet_filename = "postrm-systemd"
          /\ log[pair][1].replacements = UnitA
          /\ log[pair][2].replacements = UnitsBC
          /\ LineCount(Fragment(pair)) = SumLines(log[pair])
          /\ LineCount(Fragment(pair)) > 8

----------------------------------------------------------------------------
(* Claims about debhelper_script_subst *)

\* the step is a call of debhelper_script_subst; what it found before it acted
SubstStep == last'.op = "debhelper_script_subst"
StepUserFile ==
    pkgfile(fs, last'.dir, last'.package, last'.package, last'.script, last'.unit_name)
StepUserRead == StepUserFile # None /\ fs[StepUserFile[1]].readable
StepUserText == fs[StepUserFile[1]].text
StepFragmentName == outfile_name(last'.package, last'.script)
StepFragment ==
    IF StepFragmentName \in DOMAIN scripts THEN scripts[StepFragmentName] ELSE <<>>

\* the same for the call recorded in last, after it acted
LastUserFile ==
    pkgfile(fs, last.dir, last.package, last.package, last.script, last.unit_name)
LastFragmentName == outfile_name(last.package, last.script)

\* C8: debhelper_script_subst fails with DebHelperReplaceFailed whenever a
\* user script is resolved and its text lacks the token, whatever the
\* fragment; it does not fail so when the text holds the token; and on that
\* error it stores nothing.
C8_MissingTokenFails ==
    [][ (SubstStep /\ StepUserRead)
        => IF Contains(StepUserText, DEBHELPER)
           THEN last'.res # "DebHelperReplaceFailed"
           ELSE last'.res = "DebHelperReplaceFailed" /\ scripts' = scripts ]_vars

\* a user script without the token met a fragment that is not empty
C8_Witness ==
    /\ last.op = "debhelper_script_subst"
    /\ last.res = "DebHelperReplaceFailed"
    /\ LastUserFile # None
    /\ ~Contains(fs[LastUserFile[1]].text, DEBHELPER)
    /\ LastFragmentName \in DOMAIN scripts
    /\ scripts[LastFragmentName] # <<>>
    /\ last.script \notin DOMAIN scripts

\* the text with the tokens found by a scan from the left, none overlapping
\* an earlier one, replaced by the generated text
FirstToken(text) ==
    CHOOSE i \in 1..Len(text) :
        /\ SubSeq(text, i, i + Len(DEBHELPER) - 1) = DEBHELPER
        /\ \A j \in 1..(i - 1) : SubSeq(text, j, j + Len(DEBHELPER) - 1) # DEBHELPER

RECURSIVE Spliced(_, _)
Spliced(text, generated) ==
    IF ~Contains(text, DEBHELPER) THEN text
    ELSE SubSeq(text, 1, FirstToken(text) - 1) \o generated
         \o Spliced(SubSeq(text, FirstToken(text) + Len(DEBHELPER), Len(text)),
                    generated)

\* C9 as stated: a resolved user script holding the token is stored under
\* the script's name with the tokens replaced by the fragment text (nothing
\* when there is no fragment) and the rest of the text in place, no header
\* added; and the result holds no token when the fragment text holds none.
C9_TokenNeverSurvives ==
    [][ (SubstStep /\ StepUserRead /\ Contains(StepUserText, DEBHELPER))
        => /\ last'.res = "Ok"
           /\ last'.script \in DOMAIN scripts'
           /\ scripts'[last'.script] = Spliced(StepUserText, StepFragment)
           /\ ~Contains(StepFragment, DEBHELPER)
              => ~Contains(scripts'[last'.script], DEBHELPER) ]_vars

\* C9 amended: the tokens replaced are those found by one scan from the
\* left, none overlapping an earlier one; the result holds no token when
\* there is a fragment and its text holds none.
C9_TokensReplacedInOneScan ==
    [][ (SubstStep /\ StepUserRead /\ Contains(StepUserText, DEBHELPER))
        => /\ last'.res = "Ok"
           /\ last'.script \in DOMAIN scripts'
           /\ scripts'[last'.script] = Spliced(StepUserText, StepFragment)
           /\ \A k \in DOMAIN scripts : k # last'.script => scripts'[k] = scripts[k]
           /\ (StepFragmentName \in DOMAIN scripts /\ ~Contains(StepFragment, DEBHELPER))
              => ~Contains(scripts'[last'.script], DEBHELPER) ]_vars

\* a user script with two tokens was merged with a fragment that is not empty
C9_Witness ==
    /\ last.op = "debhelper_script_subst"
    /\ last.res = "Ok"
    /\ LastUserFile # None
    /\ fs[LastUserFile[1]].text = two_tokens_user_file
    /\ LastFragmentName \in DOMAIN scripts
    /\ last.script \in DOMAIN scripts
    /\ scripts[last.script]
         = <<"a">> \o scripts[LastFragmentName] \o <<"b">>
           \o scripts[LastFragmentName] \o <<"c">>

\* C10 as stated: with no user script resolved and a fragment for the
\* package and script, the script's name gets "#!/bin/sh\n", "set -e\n" and
\* the fragment text; the fragment stays as it was; the map gains exactly
\* one key.
C10_GeneratedScriptAddsOneKey ==
    [][ (SubstStep /\ StepUserFile = None /\ StepFragmentName \in DOMAIN scripts)
        => /\ last'.res = "Ok"
           /\ DOMAIN scripts' = DOMAIN scripts \cup {last'.script}
           /\ scripts'[last'.script] = shebang \o set_e \o scripts[StepFragmentName]
           /\ scripts'[StepFragmentName] = scripts[StepFragmentName]
           /\ Cardinality(DOMAIN scripts') = Cardinality(DOMAIN scripts) + 1 ]_vars

\* C10 amended: the map gains exactly one key unless a script is already
\* stored under that name, which is then replaced; every other entry stays
\* as it was.
C10_GeneratedScriptStored ==
    [][ (SubstStep /\ StepUserFile = None /\ StepFragmentName \in DOMAIN scripts)
        => /\ last'.res = "Ok"
           /\ DOMAIN scripts' = DOMAIN scripts \cup {last'.script}
           /\ scripts'[last'.script] = shebang \o set_e \o scripts[StepFragmentName]
           /\ \A k \in DOMAIN scripts : k # last'.script => scripts'[k] = scripts[k]
           /\ Cardinality(DOMAIN scripts')
                = Cardinality(DOMAIN scripts)
                  + (IF last'.script \in DOMAIN scripts THEN 0 ELSE 1) ]_vars

\* a script was generated from a fragment of two blocks, no user script found
C10_Witness ==
    /\ last.op = "debhelper_script_subst"
    /\ last.res = "Ok"
    /\ LastUserFile = None
    /\ LastFragmentName \in DOMAIN scripts
    /\ <<last.package, last.script>> \in DOMAIN log
    /\ Len(log[<<last.package, last.script>>]) = 2
    /\ last.script \in DOMAIN scripts
    /\ scripts[last.script] = shebang \o set_e \o scripts[LastFragmentName]
    /\ Cardinality(DOMAIN scripts) = 2

----------------------------------------------------------------------------
(* Claims about apply and about what composing leaves behind *)

\* the step is a call of apply; what each script would meet, before it acted
ApplyStep == last'.op = "apply"
KindOrder == <<"postinst", "preinst", "prerm", "postrm">>
KindUserFile(k) ==
    pkgfile(fs, last'.dir, last'.package, last'.package, k, last'.unit_name)
KindFragmentName(k) == last'.package \o "." \o k \o ".debhelper"
KindFails(k) ==
    /\ KindUserFile(k) # None
    /\ \/ ~fs[KindUserFile(k)[1]].readable
       \/ ~Contains(fs[KindUserFile(k)[1]].text, DEBHELPER)
KindHasOutput(k) ==
    /\ ~KindFails(k)
    /\ KindUserFile(k) # None \/ KindFragmentName(k) \in DOMAIN scripts

\* the place in the order of the first script that fails, 5 when none does
FailIndex ==
    IF \E i \in 1..4 : KindFails(KindOrder[i])
    THEN CHOOSE i \in 1..4 :
            KindFails(KindOrder[i]) /\ \A j \in 1..(i - 1) : ~KindFails(KindOrder[j])
    ELSE 5

\* the keys whose entry the step added or changed
Written ==
    {k \in DOMAIN scripts' : k \notin DOMAIN scripts \/ scripts'[k] # scripts[k]}

\* C11: with neither a user script nor a fragment for the script,
\* debhelper_script_subst returns Ok, leaves the map as it is and sends no
\* message; so apply on an empty map with no user files leaves the map
\* empty and sends nothing.
C11_NothingToCompose ==
    [][ /\ (SubstStep /\ StepUserFile = None /\ StepFragmentName \notin DOMAIN scripts)
           => (last'.res = "Ok" /\ scripts' = scripts /\ infos' = <<>>)
        /\ (ApplyStep /\ scripts = EmptyMap
              /\ \A k \in ScriptNames : KindUserFile(k) = None)
           => (last'.res = "Ok" /\ scripts' = EmptyMap /\ infos' = <<>>) ]_vars

\* a script with no user file and no fragment was composed on a map that
\* holds the fragment of another script
C11_Witness ==
    /\ last.op = "debhelper_script_subst"
    /\ last.res = "Ok"
    /\ LastUserFile = None
    /\ LastFragmentName \notin DOMAIN scripts
    /\ scripts # EmptyMap
    /\ last.script \notin DOMAIN scripts
    /\ infos = <<>>

\* C12 as stated: composing only reads the map, so after an apply that
\* fails the map is equal to the map before the call.
C12_FailedApplyLeavesMap ==
    [][ (ApplyStep /\ last'.res # "Ok") => scripts' = scripts ]_vars

\* C12 amended: composing never changes or removes a fragment; it writes
\* only entries named after the four scripts; a debhelper_script_subst that
\* fails leaves the map as it was, and an apply that fails has written only
\* the final scripts of the scripts that come before the failing one.
C12_OnlyFinalScriptsWritten ==
    [][ (SubstStep \/ ApplyStep)
        => /\ DOMAIN scripts \subseteq DOMAIN scripts'
           /\ Written \subseteq ScriptNames
           /\ (SubstStep /\ last'.res # "Ok") => scripts' = scripts
           /\ SubstStep => Written \subseteq {last'.script}
           /\ ApplyStep =>
                Written \subseteq {KindOrder[i] : i \in 1..(FailIndex - 1)} ]_vars

\* an apply failed at prerm after it stored postinst, with fragments in the map
C12_Witness ==
    /\ last.op = "apply"
    /\ last.res = "DebHelperReplaceFailed"
    /\ last.at = Some("prerm")
    /\ "postinst" \in DOMAIN scripts
    /\ "mypkg.postinst.debhelper" \in DOMAIN scripts
    /\ "mypkg.prerm.debhelper" \in DOMAIN scripts
    /\ "prerm" \notin DOMAIN scripts

\* the step is a debhelper_script_subst that stored a final script
SubstStored ==
    /\ last'.res = "Ok"
    /\ StepUserFile # None \/ StepFragmentName \in DOMAIN scripts

\* the number of final scripts an apply step stored
ApplyStored ==
    Cardinality({i \in 1..(FailIndex - 1) : KindHasOutput(KindOrder[i])})

\* C13 as stated: debhelper_script_subst sends exactly one message if and
\* only if the script gets a final script, none otherwise; so the messages
\* of an apply are as many as the final scripts it stored.
C13_OneMessagePerOutput ==
    [][ /\ SubstStep => Len(infos') = (IF SubstStored THEN 1 ELSE 0)
        /\ ApplyStep => Len(infos') = ApplyStored ]_vars

\* C13 amended: debhelper_script_subst sends exactly one message if and only
\* if a user script is resolved ("Augmenting", sent before the script is
\* read and merged) or else a fragment exists ("Generating"); so a call that
\* fails has sent its message and stored nothing, and the messages of an
\* apply are as many as the final scripts it stored, plus one if it failed.
C13_OneMessagePerAttempt ==
    [][ /\ SubstStep =>
             /\ infos' = IF StepUserFile # None
                         THEN <<"Augmenting maintainer script " \o StepUserFile[1]>>
                         ELSE IF StepFragmentName \in DOMAIN scripts
                         THEN <<"Generating maintainer script " \o last'.script>>
                         ELSE <<>>
             /\ Len(infos') = (IF SubstStored THEN 1 ELSE 0)
                              + (IF last'.res # "Ok" THEN 1 ELSE 0)
        /\ ApplyStep =>
             Len(infos') = ApplyStored + (IF last'.res # "Ok" THEN 1 ELSE 0) ]_vars

\* a user script without the token: the message was sent, nothing was stored
C13_Witness ==
    /\ last.op = "debhelper_script_subst"
    /\ last.res = "DebHelperReplaceFailed"
    /\ last.script = "prerm"
    /\ infos = <<"Augmenting maintainer script debian/prerm">>
    /\ "prerm" \notin DOMAIN scripts

\* the step is a call of autoscript; the fragment it is about, named as the
\* claim names it, and its text before the call
AutoscriptStep == last'.op = "autoscript"
StepEntry == last'.package \o "." \o last'.script \o ".debhelper"
StepEntryBefore == IF StepEntry \in DOMAIN scripts THEN scripts[StepEntry] ELSE <<>>

\* C14: the text of a fragment never shrinks; after a successful autoscript
\* the text before the call is a contiguous prefix (preinst, postinst) or
\* suffix (prerm, postrm) of the text after it, which is strictly longer.
C14_FragmentsOnlyGrow ==
    [][ /\ \A k \in DOMAIN scripts :
              k \in DOMAIN scripts' /\ Len(scripts'[k]) >= Len(scripts[k])
        /\ (AutoscriptStep /\ last'.res = "Ok")
           => /\ StepEntry \in DOMAIN scripts'
              /\ Len(scripts'[StepEntry]) > Len(StepEntryBefore)
              /\ IF last'.script \in {"preinst", "postinst"}
                 THEN StartsWith(scripts'[StepEntry], StepEntryBefore)
                 ELSE EndsWith(scripts'[StepEntry], StepEntryBefore) ]_vars

\* a second, different block was added to a fragment: the first block is
\* the start of an install fragment and not its end, or the end of a removal
\* fragment and not its start
C14_Witness ==
    /\ last.op = "autoscript"
    /\ last.res = "Ok"
    /\ Len(log[<<last.package, last.script>>]) = 2
    /\ LET old == Blocks(<<last.package, last.script>>)[1]
           new == Fragment(<<last.package, last.script>>)
       IN  /\ Len(new) > Len(old)
           /\ IF last.script \in {"preinst", "postinst"}
              THEN StartsWith(new, old) /\ ~EndsWith(new, old)
              ELSE EndsWith(new, old) /\ ~StartsWith(new, old)

\* the message debhelper_script_subst sends for a script within an apply step
KindMessage(k) ==
    IF KindUserFile(k) # None
    THEN <<"Augmenting maintainer script " \o KindUserFile(k)[1]>>
    ELSE IF KindFragmentName(k) \in DOMAIN scripts
    THEN <<"Generating maintainer script " \o k>>
    ELSE <<>>

\* C15: apply takes the scripts in the order postinst, preinst, prerm,
\* postrm and stops at the first that fails: the scripts after it get no
\* final script and no message, and the final scripts stored for the
\* scripts before it remain.
C15_FixedOrderStopAtFirstError ==
    [][ ApplyStep
        => /\ last'.at = IF FailIndex = 5 THEN None ELSE Some(KindOrder[FailIndex])
           /\ (last'.res = "Ok") <=> (FailIndex = 5)
           /\ \A i \in 1..4 :
                LET k == KindOrder[i]
                IN  IF i < FailIndex
                    THEN KindHasOutput(k) => k \in DOMAIN scripts'
                    ELSE /\ k \notin Written
                         /\ k \in DOMAIN scripts' <=> k \in DOMAIN scripts
           /\ infos' = Concat([i \in 1..(IF FailIndex = 5 THEN 4 ELSE FailIndex)
                                 |-> KindMessage(KindOrder[i])]) ]_vars

\* an apply stopped at prerm: postinst is stored, and postrm is not though
\* its user script is there and holds the token
C15_Witness ==
    /\ last.op = "apply"
    /\ last.res # "Ok"
    /\ last.at = Some("prerm")
    /\ "postinst" \in DOMAIN scripts
    /\ "postrm" \notin DOMAIN scripts
    /\ is_path_file(fs, "debian/postrm")
    /\ Contains(fs["debian/postrm"].text, DEBHELPER)
    /\ Len(infos) = 2

\* C16: an autoscript that fails (empty map of replacements, unknown
\* template) leaves the map exactly as it was; one that succeeds changes only
\* the entry "<package>.<script>.debhelper".
C16_AutoscriptTouchesOneEntry ==
    [][ AutoscriptStep
        => /\ last'.res # "Ok" => scripts' = scripts
           /\ last'.res = "Ok"
              => /\ DOMAIN scripts' = DOMAIN scripts \cup {StepEntry}
                 /\ scripts'[StepEntry] # StepEntryBefore
                 /\ \A k \in DOMAIN scripts \ {StepEntry} : scripts'[k] = scripts[k] ]_vars

\* a successful call beside the fragment of another script, which is as it
\* was when its one block was added
C16_Witness ==
    /\ last.op = "autoscript"
    /\ last.res = "Ok"
    /\ Cardinality(DOMAIN scripts) = 2
    /\ \E pair \in DOMAIN log :
          /\ pair # <<last.package, last.script>>
          /\ Len(log[pair]) = 1
          /\ scripts[pair[1] \o "." \o pair[2] \o ".debhelper"] = Blocks(pair)[1]

\* the files debhelper_script_subst may take as the user script, best first
StepCandidates ==
    (IF last'.unit_name # None
     THEN <<Join(last'.dir, last'.package \o "." \o last'.unit_name[1] \o "." \o last'.script),
            Join(last'.dir, last'.unit_name[1] \o "." \o last'.script)>>
     ELSE <<>>)
    \o <<Join(last'.dir, last'.package \o "." \o last'.script),
         Join(last'.dir, last'.script)>>

C18_ApplyIdempotent ==
    last.op = "apply"
    => LET again == apply(fs, scripts, last.dir, last.package, last.unit_name)
       IN  /\ again.res = last.res
           /\ again.at = last.at
           /\ again.scripts = scripts
           /\ again.infos = infos

\* an apply that stored a script merged from a user file and one generated
\* from a fragment alone
C18_Witness ==
    /\ last.op = "apply"
    /\ last.res = "Ok"
    /\ \E k \in ScriptNames :
          /\ k \in DOMAIN scripts
          /\ outfile_name(last.package, k) \in DOMAIN scripts
          /\ pkgfile(fs, last.dir, last.package, last.package, k, last.unit_name) = None
    /\ \E k \in ScriptNames :
          /\ k \in DOMAIN scripts
          /\ pkgfile(fs, last.dir, last.package, last.package, k, last.unit_name) # None

====
